---- MODULE Spec2Model ----
(***************************************************************************)
(* wasm-split runtime (packages/wasm-split/wasm-split/src/lib.rs).         *)
(*                                                                         *)
(* One split module: a SplitLoader (state + waker cells), the              *)
(* SplitLoaderFuture that drives it, the shared async_once_cell::Lazy that *)
(* memoizes the future's result for every waiter, and the LazyLoader       *)
(* facade (load / call) bound to an imported function.  Everything runs on *)
(* one thread (thread_local key, Rc, Cell), so each poll, each callback    *)
(* and each call is one atomic step.                                       *)
(***************************************************************************)
EXTENDS Integers, FiniteSets, Sequences, TLC

\* ---- bounds ----
NumTasks == 3          \* tasks that may await load() on the handle
MaxLoads == 2          \* cap on the load-routine invocation counter

Tasks == 1..NumTasks
NoTask == 0

\* Argument tuples handed to call(); the bound function is Add(a, b).
ArgValues == {<<2, 3>>, <<1, 1>>}

\* ---- values ----
None == <<"None">>
Some(v) == <<"Some", v>>

\* enum SplitLoaderState
Deferred == <<"Deferred">>
Pending == <<"Pending">>
Completed(b) == <<"Completed", b>>

\* enum SplitLoaderError, Result<T>
FailedToLoad == "FailedToLoad"
Err(e) == <<"Err", e>>
Ok(v) == <<"Ok", v>>

\* What the external load routine does with the callback it is given:
\* keep it for later, or invoke it with a flag before returning.
LoadBehaviours == {"later", "sync_true", "sync_false"}

VARIABLES
    kind,         \* how the facade was built: "deferred" (new) or "preloaded"
    state,        \* SplitLoader.state
    waker,        \* SplitLoader.waker: NoTask (None) or the task whose waker is stored
    cell,         \* value cached in the Lazy: None or Some(bool) (what try_get sees)
    head,         \* task currently driving the Lazy's inner future, or NoTask
    queue,        \* tasks whose wakers sit in the Lazy's waiter list
    step,         \* per task: position of its load()/ensure_loaded await
    result,       \* per task: None or Some(b), the value its await returned
    woken,        \* per task: its waker has been woken and it has not been polled since
    loadCalls,    \* number of invocations of the external load routine
    tokens,       \* raw Rc tokens handed to the load routine and not yet reclaimed
    inflight,     \* load requests for which the loader still owes the callback
    callbackFlag, \* None, or Some(success) once load_callback has run
    lastCall,     \* None, or the record of the most recent LazyLoader::call
    resolvedVals, \* every boolean any load()/ensure_loaded await has returned
    early,        \* per task: its current await was polled before load_callback ran
    cancelled,    \* some pending await has been dropped while the state was Pending
    late,         \* per task: its current await was created after an await had resolved
    routine,      \* None, or Some(what the load routine did when it was invoked)
    replaced,     \* a poll that found Pending has replaced another task's waker
    lifetime      \* who keeps the SplitLoader alive: "live" (the thread-local handle),
                  \* "token" (only the raw token), "freed_teardown", "freed_callback",
                  \* or "use_after_free" (the callback ran on a freed SplitLoader)

vars == <<kind, state, waker, cell, head, queue, step, result, woken,
          loadCalls, tokens, inflight, callbackFlag, lastCall, resolvedVals,
          early, cancelled, late, routine, replaced, lifetime>>

Active == {"Start", "Wait", "Run"}
Steps == {"Idle", "Start", "Wait", "Run", "Done"}

\* ---- LazyLoader: the bound function pointer and call ----

\* LazyLoader.imported: the function the facade is bound to, here Add(a, b).
imported(args) == args[1] + args[2]

\* call accepting anything but a cached failure.
call_unlessFalse(cellValue, args) ==
    IF cellValue # Some(FALSE)
    THEN [invokedWith |-> Some(args), ret |-> Ok(imported(args))]
    ELSE [invokedWith |-> None, ret |-> Err(FailedToLoad)]

\* call matching `Some(_)` instead of `Some(true)`.
call_anySome(cellValue, args) ==
    IF cellValue # None
    THEN [invokedWith |-> Some(args), ret |-> Ok(imported(args))]
    ELSE [invokedWith |-> None, ret |-> Err(FailedToLoad)]

\* call consulting SplitLoader.state instead of the Lazy's cached value.
call_byState(cellValue, args) ==
    IF state = <<"Completed", TRUE>>
    THEN [invokedWith |-> Some(args), ret |-> Ok(imported(args))]
    ELSE [invokedWith |-> None, ret |-> Err(FailedToLoad)]

\* LazyLoader::call: `let Some(true) = lazy.try_get().copied() else Err(..)`,
\* then Ok(imported(args)).  cellValue is what try_get returns.
call(cellValue, args) ==
    IF cellValue = Some(TRUE)
    THEN [invokedWith |-> Some(args), ret |-> Ok(imported(args))]
    ELSE [invokedWith |-> None, ret |-> Err(FailedToLoad)]

\* ---- LazySplitLoader constructors ----

\* LazySplitLoader::new(load): Lazy::new over a Deferred SplitLoader.
LazySplitLoader_new == [state |-> Deferred, waker |-> NoTask, cell |-> None]

\* preloaded() built over a Pending SplitLoader.
LazySplitLoader_preloaded_pending == [state |-> Pending, waker |-> NoTask, cell |-> None]

\* LazySplitLoader::preloaded(): Lazy::new over a Completed(true) SplitLoader.
\* The Lazy itself is freshly built, so it holds no value yet.
LazySplitLoader_preloaded == [state |-> Completed(TRUE), waker |-> NoTask, cell |-> None]

\* ---- SplitLoaderFuture ----

PollPending == <<"Poll::Pending">>
Ready(v) == <<"Poll::Ready", v>>

\* load_callback that takes the waker but never wakes it.
load_callback_noWake(L, success) ==
    [state  |-> Completed(success),
     waker  |-> NoTask,
     tokens |-> L.tokens - 1,
     woke   |-> NoTask]

\* load_callback that wakes a copy of the stored waker and leaves it in the slot.
load_callback_keepsWaker(L, success) ==
    [state  |-> Completed(success),
     waker  |-> L.waker,
     tokens |-> L.tokens - 1,
     woke   |-> L.waker]

\* load_callback(loader, success): Rc::from_raw reclaims the token, the state
\* becomes Completed(success), the waker slot is taken and, if it held a
\* waker, that waker is woken.  L is [state, waker, tokens].
load_callback(L, success) ==
    [state  |-> Completed(success),
     waker  |-> NoTask,
     tokens |-> L.tokens - 1,
     woke   |-> L.waker]

\* The Deferred arm without `state.set(Pending)`.
poll_Deferred_staysDeferred(L, t, behaviour) ==
    LET issued == [state |-> L.state, waker |-> t, tokens |-> L.tokens + 1]
    IN  IF behaviour = "later"
        THEN [state |-> issued.state, waker |-> issued.waker,
              tokens |-> issued.tokens, woke |-> NoTask,
              loads |-> 1, called |-> None, ret |-> PollPending]
        ELSE LET success == (behaviour = "sync_true")
                 done == load_callback(issued, success)
             IN  [state |-> done.state, waker |-> done.waker,
                  tokens |-> done.tokens, woke |-> done.woke,
                  loads |-> 1, called |-> Some(success), ret |-> PollPending]

\* The Deferred arm with `state.set(Pending)` placed after the load call: a
\* callback made before the routine returns is overwritten.
poll_Deferred_pendingAfterLoad(L, t, behaviour) ==
    LET issued == [state |-> L.state, waker |-> t, tokens |-> L.tokens + 1]
    IN  IF behaviour = "later"
        THEN [state |-> Pending, waker |-> issued.waker,
              tokens |-> issued.tokens, woke |-> NoTask,
              loads |-> 1, called |-> None, ret |-> PollPending]
        ELSE LET success == (behaviour = "sync_true")
                 done == load_callback(issued, success)
             IN  [state |-> Pending, waker |-> done.waker,
                  tokens |-> done.tokens, woke |-> done.woke,
                  loads |-> 1, called |-> Some(success), ret |-> PollPending]

\* The Deferred arm handing out the pointer without a strong reference of its
\* own (Rc::as_ptr instead of Rc::into_raw of a clone).
poll_Deferred_noClone(L, t, behaviour) ==
    LET issued == [state |-> Pending, waker |-> t, tokens |-> L.tokens]
    IN  IF behaviour = "later"
        THEN [state |-> issued.state, waker |-> issued.waker,
              tokens |-> issued.tokens, woke |-> NoTask,
              loads |-> 1, called |-> None, ret |-> PollPending]
        ELSE LET success == (behaviour = "sync_true")
                 done == load_callback(issued, success)
             IN  [state |-> done.state, waker |-> done.waker,
                  tokens |-> done.tokens, woke |-> done.woke,
                  loads |-> 1, called |-> Some(success), ret |-> PollPending]

\* poll, arm `SplitLoaderState::Deferred(load)`: the state is set to Pending and
\* the waker stored before the load routine is invoked with load_callback and
\* a raw clone of the Rc; the poll returns Poll::Pending.  behaviour says what
\* the load routine does with the callback.
poll_Deferred(L, t, behaviour) ==
    LET issued == [state |-> Pending, waker |-> t, tokens |-> L.tokens + 1]
    IN  IF behaviour = "later"
        THEN [state |-> issued.state, waker |-> issued.waker,
              tokens |-> issued.tokens, woke |-> NoTask,
              loads |-> 1, called |-> None, ret |-> PollPending]
        ELSE LET success == (behaviour = "sync_true")
                 done == load_callback(issued, success)
             IN  [state |-> done.state, waker |-> done.waker,
                  tokens |-> done.tokens, woke |-> done.woke,
                  loads |-> 1, called |-> Some(success), ret |-> PollPending]

\* The Pending arm issuing the load again for the new poller.
poll_Pending_reload(L, t, behaviour) ==
    [state |-> Pending, waker |-> t, tokens |-> L.tokens + 1, woke |-> NoTask,
     loads |-> 1, called |-> None, ret |-> PollPending]

\* The Pending arm leaving the waker that is already stored.
poll_Pending_keepsWaker(L, t, behaviour) ==
    [state |-> Pending, waker |-> L.waker, tokens |-> L.tokens, woke |-> NoTask,
     loads |-> 0, called |-> None, ret |-> PollPending]

\* The Pending arm giving up on a load that is still in flight.
poll_Pending_readyFalse(L, t, behaviour) ==
    [state |-> Pending, waker |-> t, tokens |-> L.tokens, woke |-> NoTask,
     loads |-> 0, called |-> None, ret |-> Ready(FALSE)]

\* poll, arm `SplitLoaderState::Pending`: the stored waker is replaced.
poll_Pending(L, t, behaviour) ==
    [state |-> Pending, waker |-> t, tokens |-> L.tokens, woke |-> NoTask,
     loads |-> 0, called |-> None, ret |-> PollPending]

\* The Completed arm answering Poll::Ready(true) whatever the stored flag.
poll_Completed_readyTrue(L, t, behaviour) ==
    [state |-> L.state, waker |-> L.waker, tokens |-> L.tokens, woke |-> NoTask,
     loads |-> 0, called |-> None, ret |-> Ready(TRUE)]

\* The Completed arm retrying a failed load: Completed(false) is handled like
\* Deferred, the routine is invoked again.
poll_Completed_retry(L, t, behaviour) ==
    IF L.state[2]
    THEN [state |-> L.state, waker |-> L.waker, tokens |-> L.tokens,
          woke |-> NoTask, loads |-> 0, called |-> None, ret |-> Ready(TRUE)]
    ELSE [state |-> Pending, waker |-> t, tokens |-> L.tokens + 1,
          woke |-> NoTask, loads |-> 1, called |-> None, ret |-> PollPending]

\* poll, arm `SplitLoaderState::Completed(value)`: Poll::Ready(value).
poll_Completed(L, t, behaviour) ==
    [state |-> L.state, waker |-> L.waker, tokens |-> L.tokens, woke |-> NoTask,
     loads |-> 0, called |-> None, ret |-> Ready(L.state[2])]

\* SplitLoaderFuture::poll with the context of task t: `match self.loader.state.get()`.
poll(L, t, behaviour) ==
    IF L.state = Deferred THEN poll_Deferred(L, t, behaviour)
    ELSE IF L.state = Pending THEN poll_Pending(L, t, behaviour)
    ELSE poll_Completed(L, t, behaviour)

\* ---- the shared Lazy cell (async_once_cell::Lazy<bool, SplitLoaderFuture>) ----

\* Lazy::try_get: the cached value, if the inner future has been driven to
\* completion through the cell.
try_get == cell

\* Whether task t may drive the inner future on this poll: the value is not
\* ready and no other task holds the head position.
MayDrive(t) == cell = None /\ head \in {NoTask, t}

\* Waking a set of wakers: a wake reaches a task only while it has a live await.
WakeAll(w, S, st) == [u \in Tasks |-> IF u \in S /\ st[u] \in Active THEN TRUE ELSE w[u]]

Lifetimes == {"live", "token", "freed_teardown", "freed_callback", "use_after_free"}

\* Rc::strong_count of the SplitLoader: the reference held by the
\* SplitLoaderFuture inside the handle, plus the raw tokens handed out.
StrongCount == (IF lifetime = "live" THEN 1 ELSE 0) + tokens

TypeOK ==
    /\ kind \in {"deferred", "preloaded"}
    /\ state \in {Deferred, Pending, Completed(TRUE), Completed(FALSE)}
    /\ waker \in Tasks \cup {NoTask}
    /\ cell \in {None, Some(TRUE), Some(FALSE)}
    /\ head \in Tasks \cup {NoTask}
    /\ queue \subseteq Tasks
    /\ step \in [Tasks -> Steps]
    /\ result \in [Tasks -> {None, Some(TRUE), Some(FALSE)}]
    /\ woken \in [Tasks -> BOOLEAN]
    /\ loadCalls \in 0..MaxLoads
    /\ tokens \in 0..MaxLoads
    /\ inflight \in 0..MaxLoads
    /\ callbackFlag \in {None, Some(TRUE), Some(FALSE)}
    /\ resolvedVals \subseteq BOOLEAN
    /\ early \in [Tasks -> BOOLEAN]
    /\ cancelled \in BOOLEAN
    /\ late \in [Tasks -> BOOLEAN]
    /\ routine \in {None} \cup {Some(b) : b \in LoadBehaviours}
    /\ replaced \in BOOLEAN
    /\ lifetime \in Lifetimes

\* ---- construction ----

\* The facade is built either by LazyLoader::new over LazySplitLoader::new,
\* or by LazyLoader::preloaded.
Init ==
    /\ kind \in {"deferred", "preloaded"}
    /\ LET l == IF kind = "deferred" THEN LazySplitLoader_new
                ELSE LazySplitLoader_preloaded
       IN  state = l.state /\ waker = l.waker /\ cell = l.cell
    /\ head = NoTask
    /\ queue = {}
    /\ step = [t \in Tasks |-> "Idle"]
    /\ result = [t \in Tasks |-> None]
    /\ woken = [t \in Tasks |-> FALSE]
    /\ loadCalls = 0
    /\ tokens = 0
    /\ inflight = 0
    /\ callbackFlag = None
    /\ lastCall = None
    /\ resolvedVals = {}
    /\ early = [t \in Tasks |-> FALSE]
    /\ cancelled = FALSE
    /\ late = [t \in Tasks |-> FALSE]
    /\ routine = None
    /\ replaced = FALSE
    /\ lifetime = "live"

\* ---- operations ----

\* LazyLoader::load / LazySplitLoader::ensure_loaded is called by task t: the
\* Rc is cloned and the await is created; nothing runs until the first poll.
StartLoad(t) ==
    /\ lifetime = "live"
    /\ step[t] = "Idle"
    /\ step' = [step EXCEPT ![t] = "Start"]
    /\ woken' = [woken EXCEPT ![t] = TRUE]
    /\ late' = [late EXCEPT ![t] = (resolvedVals # {})]
    /\ UNCHANGED <<kind, state, waker, cell, head, queue, result, loadCalls,
                   tokens, inflight, callbackFlag, lastCall, resolvedVals, early,
                   cancelled, routine, replaced, lifetime>>

\* An await on a resolved cell that registers as a waiter and suspends once
\* before it looks at the cached value.
PollCached_suspends(t) ==
    /\ IF step[t] = "Start"
       THEN /\ step' = [step EXCEPT ![t] = "Wait"]
            /\ woken' = [woken EXCEPT ![t] = TRUE]
            /\ UNCHANGED <<result, resolvedVals>>
       ELSE /\ step' = [step EXCEPT ![t] = "Done"]
            /\ result' = [result EXCEPT ![t] = try_get]
            /\ resolvedVals' = resolvedVals \cup {try_get[2]}
            /\ woken' = [woken EXCEPT ![t] = FALSE]
    /\ UNCHANGED <<state, waker, cell, head, queue, loadCalls, tokens,
                   inflight, callbackFlag, routine, replaced, lifetime>>

\* A poll of task t's await that finds the value cached in the cell: the await
\* returns it at once and the SplitLoaderFuture is not polled.
PollCached(t) ==
    /\ step' = [step EXCEPT ![t] = "Done"]
    /\ result' = [result EXCEPT ![t] = try_get]
    /\ resolvedVals' = resolvedVals \cup {try_get[2]}
    /\ woken' = [woken EXCEPT ![t] = FALSE]
    /\ UNCHANGED <<state, waker, cell, head, queue, loadCalls, tokens,
                   inflight, callbackFlag, routine, replaced, lifetime>>

\* One poll of task t's await on the cell.
PollTask(t, behaviour) ==
    /\ step[t] \in Active
    /\ state = Deferred => loadCalls < MaxLoads
    /\ early' = [early EXCEPT ![t] = early[t] \/ callbackFlag = None]
    /\ IF try_get # None THEN
           \* the cell is ready: return the cached value
           PollCached(t)
       ELSE IF MayDrive(t) THEN
           \* t holds the head position and polls the SplitLoaderFuture
           LET r == poll([state |-> state, waker |-> waker, tokens |-> tokens],
                         t, behaviour)
               cleared == [woken EXCEPT ![t] = FALSE]
           IN  /\ state' = r.state
               /\ waker' = r.waker
               /\ tokens' = r.tokens
               /\ loadCalls' = loadCalls + r.loads
               /\ inflight' = IF r.loads = 1 /\ r.called = None
                              THEN inflight + 1 ELSE inflight
               /\ callbackFlag' = IF r.called # None THEN r.called ELSE callbackFlag
               /\ routine' = IF r.loads = 1 THEN Some(behaviour) ELSE routine
               /\ replaced' = (replaced \/ (state = Pending /\ waker # t))
               /\ IF r.ret = PollPending THEN
                      /\ head' = t
                      /\ step' = [step EXCEPT ![t] = "Run"]
                      /\ woken' = WakeAll(cleared, {r.woke}, step')
                      /\ UNCHANGED <<cell, queue, result, resolvedVals>>
                  ELSE
                      \* the value is stored, the head is released and every
                      \* queued waiter is woken
                      /\ cell' = Some(r.ret[2])
                      /\ head' = NoTask
                      /\ queue' = {}
                      /\ step' = [step EXCEPT ![t] = "Done"]
                      /\ result' = [result EXCEPT ![t] = Some(r.ret[2])]
                      /\ resolvedVals' = resolvedVals \cup {r.ret[2]}
                      /\ woken' = WakeAll(cleared, queue \cup {r.woke}, step')
       ELSE
           \* another task is driving: leave a waker in the waiter list
           /\ queue' = queue \cup {t}
           /\ step' = [step EXCEPT ![t] = "Wait"]
           /\ woken' = [woken EXCEPT ![t] = FALSE]
           /\ UNCHANGED <<state, waker, cell, head, result, loadCalls, tokens,
                          inflight, callbackFlag, resolvedVals, routine, replaced, lifetime>>
    /\ UNCHANGED <<kind, lastCall, cancelled, late, lifetime>>

\* The executor polls a task that is new or has been woken.
Poll(t) == woken[t] /\ \E b \in LoadBehaviours : PollTask(t, b)

\* A poll nothing asked for (futures may be polled at any time).
SpuriousPoll(t) == ~woken[t] /\ \E b \in LoadBehaviours : PollTask(t, b)

\* The external loader invokes the completion callback it was handed.
Callback(success) ==
    /\ inflight > 0
    /\ LET r == load_callback([state |-> state, waker |-> waker, tokens |-> tokens],
                              success)
       IN  /\ state' = r.state
           /\ waker' = r.waker
           /\ tokens' = r.tokens
           /\ woken' = WakeAll(woken, {r.woke}, step)
    /\ inflight' = inflight - 1
    /\ callbackFlag' = Some(success)
    /\ lifetime' = IF StrongCount = 0 THEN "use_after_free"
                   ELSE IF lifetime = "token" /\ tokens = 1 THEN "freed_callback"
                   ELSE lifetime
    /\ UNCHANGED <<kind, cell, head, queue, step, result, loadCalls, lastCall,
                   resolvedVals, early, cancelled, late, routine, replaced>>

\* Task t's pending await is dropped (cancellation).  A dropped head releases
\* the head position and wakes the queued waiters.
Drop(t) ==
    /\ step[t] \in Active
    /\ step' = [step EXCEPT ![t] = "Idle"]
    /\ IF head = t
       THEN /\ head' = NoTask
            /\ queue' = {}
            /\ woken' = WakeAll([woken EXCEPT ![t] = FALSE], queue, step')
       ELSE /\ woken' = [woken EXCEPT ![t] = FALSE]
            /\ UNCHANGED <<head, queue>>
    /\ early' = [early EXCEPT ![t] = FALSE]
    /\ cancelled' = (cancelled \/ state = Pending)
    /\ late' = [late EXCEPT ![t] = FALSE]
    /\ UNCHANGED <<kind, state, waker, cell, result, loadCalls, tokens,
                   inflight, callbackFlag, lastCall, resolvedVals, routine, replaced, lifetime>>

\* Task t has consumed the value its await returned.
Finish(t) ==
    /\ step[t] = "Done"
    /\ step' = [step EXCEPT ![t] = "Idle"]
    /\ result' = [result EXCEPT ![t] = None]
    /\ early' = [early EXCEPT ![t] = FALSE]
    /\ late' = [late EXCEPT ![t] = FALSE]
    /\ UNCHANGED <<kind, state, waker, cell, head, queue, woken, loadCalls,
                   tokens, inflight, callbackFlag, lastCall, resolvedVals,
                   cancelled, routine, replaced, lifetime>>

\* call that starts the load itself when it finds the handle Deferred.
Call_triggersLoad(args) ==
    /\ lifetime = "live"
    /\ LET r == call(try_get, args)
       IN  lastCall' = Some([args |-> args, invokedWith |-> r.invokedWith,
                             ret |-> r.ret, state |-> state, cell |-> cell,
                             resolved |-> resolvedVals,
                             callbackFlag |-> callbackFlag])
    /\ IF state = Deferred /\ loadCalls < MaxLoads
       THEN /\ state' = Pending
            /\ loadCalls' = loadCalls + 1
            /\ tokens' = tokens + 1
            /\ inflight' = inflight + 1
       ELSE UNCHANGED <<state, loadCalls, tokens, inflight>>
    /\ UNCHANGED <<kind, waker, cell, head, queue, step, result, woken,
                   callbackFlag, resolvedVals, early, cancelled, late,
                   routine, replaced, lifetime>>

\* The owning thread ends: no task is left, the thread-local LazySplitLoader
\* is destroyed and with it the Lazy and the SplitLoaderFuture, which gives
\* up its reference to the SplitLoader.
Teardown ==
    /\ lifetime = "live"
    /\ \A t \in Tasks : step[t] = "Idle"
    /\ lifetime' = IF tokens > 0 THEN "token" ELSE "freed_teardown"
    /\ UNCHANGED <<kind, state, waker, cell, head, queue, step, result, woken,
                   loadCalls, tokens, inflight, callbackFlag, lastCall,
                   resolvedVals, early, cancelled, late, routine, replaced>>

\* LazyLoader::call(args).  The record keeps what the call did together with
\* the loader as it was when the call was made.
Call(args) ==
    /\ lifetime = "live"
    /\ LET r == call(try_get, args)
       IN  lastCall' = Some([args |-> args, invokedWith |-> r.invokedWith,
                             ret |-> r.ret, state |-> state, cell |-> cell,
                             resolved |-> resolvedVals,
                             callbackFlag |-> callbackFlag])
    /\ UNCHANGED <<kind, state, waker, cell, head, queue, step, result, woken,
                   loadCalls, tokens, inflight, callbackFlag, resolvedVals, early,
                   cancelled, late, routine, replaced, lifetime>>

Next ==
    \/ \E t \in Tasks : StartLoad(t)
    \/ \E t \in Tasks : Poll(t)
    \/ \E t \in Tasks : SpuriousPoll(t)
    \/ \E b \in BOOLEAN : Callback(b)
    \/ \E t \in Tasks : Drop(t)
    \/ \E t \in Tasks : Finish(t)
    \/ \E a \in ArgValues : Call(a)
    \/ Teardown

Spec == Init /\ [][Next]_vars

\* The same program under an executor that polls a task only when it is new
\* or woken, polls every such task eventually, and a loader that keeps its
\* contract of calling back.  call is left out of this relation: it is
\* synchronous, reads the cell and writes nothing an await or the loader can
\* observe.
NextScheduled ==
    \/ \E t \in Tasks : StartLoad(t)
    \/ \E t \in Tasks : Poll(t)
    \/ \E b \in BOOLEAN : Callback(b)
    \/ \E t \in Tasks : Drop(t)
    \/ \E t \in Tasks : Finish(t)
    \/ Teardown

LiveSpec ==
    /\ Init
    /\ [][NextScheduled]_vars
    /\ \A t \in Tasks : WF_vars(Poll(t))
    /\ WF_vars(\E b \in BOOLEAN : Callback(b))

\* ---- claims ----

\* The most recent call, once one has been made.
CallMade == lastCall # None
TheCall == lastCall[2]


\* C1: over any interleaving of load()/ensure_loaded awaits, polls, drops,
\* calls and the completion callback, the external load routine is invoked
\* at most once.
C1_LoadAtMostOnce == loadCalls <= 1

\* The routine has been invoked, the callback has run, and two tasks have
\* each resolved an await on the handle.
C1_Witness ==
    /\ loadCalls = 1
    /\ callbackFlag # None
    /\ \E t, u \in Tasks : t # u /\ step[t] = "Done" /\ step[u] = "Done"

\* C2: call invokes the bound function pointer only if SplitLoader.state was
\* Completed(true) when the call was made; never while Deferred, Pending or
\* Completed(false).
C2_InvokeOnlyWhenCompletedTrue ==
    (CallMade /\ TheCall.invokedWith # None)
        => TheCall.state = Completed(TRUE)

\* A call on a deferred facade that did invoke the function.
C2_Witness ==
    /\ kind = "deferred"
    /\ CallMade
    /\ TheCall.invokedWith # None

\* C3: on a deferred facade, a call made before any load() has resolved
\* returns Err(FailedToLoad) and does not invoke the bound function.
C3_CallBeforeResolve ==
    (kind = "deferred" /\ CallMade /\ TheCall.resolved = {})
        => /\ TheCall.ret = Err(FailedToLoad)
           /\ TheCall.invokedWith = None

\* A call made after the callback reported success but before any await
\* had resolved.
C3_Witness ==
    /\ kind = "deferred"
    /\ CallMade
    /\ TheCall.resolved = {}
    /\ TheCall.callbackFlag = Some(TRUE)

\* C4: a call made after a load() resolved to true invokes the bound function
\* with its args and returns Ok of the result; a call made after a load()
\* resolved to false returns Err(FailedToLoad) without invoking it.
C4_CallAfterResolve ==
    CallMade =>
        /\ TRUE \in TheCall.resolved =>
              /\ TheCall.invokedWith = Some(TheCall.args)
              /\ TheCall.ret = Ok(TheCall.args[1] + TheCall.args[2])
        /\ FALSE \in TheCall.resolved =>
              /\ TheCall.invokedWith = None
              /\ TheCall.ret = Err(FailedToLoad)

\* Add(2, 3) was called after a load() resolved to true and returned 5.
C4_Witness ==
    /\ CallMade
    /\ TheCall.resolved = {TRUE}
    /\ TheCall.args = <<2, 3>>
    /\ TheCall.ret = Ok(5)

\* A call made after a load() resolved to false.
C4_WitnessFailed ==
    /\ CallMade
    /\ TheCall.resolved = {FALSE}
    /\ TheCall.ret = Err(FailedToLoad)

\* C5 as stated: whenever SplitLoader.state is Completed(true), call(args)
\* invokes the bound function with args and returns Ok of its result; stated
\* here for the deferred facade, where the state becomes Completed(true) by
\* the completion callback.
C5_CallWheneverCompletedTrue ==
    (kind = "deferred" /\ CallMade /\ TheCall.state = Completed(TRUE))
        => /\ TheCall.invokedWith = Some(TheCall.args)
           /\ TheCall.ret = Ok(TheCall.args[1] + TheCall.args[2])

\* C5 amended: whenever SplitLoader.state is Completed(true) and the shared
\* cell has cached that result (an await on the handle has resolved through
\* it), call(args) invokes the bound function with args and returns Ok of its
\* result; on a deferred handle, in the states after the callback has fired
\* with true and before the cell has cached the result, call returns
\* Err(FailedToLoad) and invokes nothing.
C5_CallWhenCellTrue ==
    (CallMade /\ TheCall.state = Completed(TRUE)) =>
        /\ TheCall.cell = Some(TRUE) =>
              /\ TheCall.invokedWith = Some(TheCall.args)
              /\ TheCall.ret = Ok(TheCall.args[1] + TheCall.args[2])
        /\ (kind = "deferred" /\ TheCall.cell = None) =>
              /\ TheCall.invokedWith = None
              /\ TheCall.ret = Err(FailedToLoad)

\* Add(1, 1) was called on a deferred facade whose state was Completed(true)
\* with the value cached, and returned 2.
C5_Witness ==
    /\ kind = "deferred"
    /\ CallMade
    /\ TheCall.state = Completed(TRUE)
    /\ TheCall.cell = Some(TRUE)
    /\ TheCall.args = <<1, 1>>
    /\ TheCall.ret = Ok(2)

\* C6: on a facade built by LazyLoader::preloaded(f), every call(args), also
\* one made before any load() was awaited, returns Ok(f(args)) and never
\* Err(FailedToLoad).
C6_PreloadedCallSucceeds ==
    (kind = "preloaded" /\ CallMade)
        => /\ TheCall.ret = Ok(TheCall.args[1] + TheCall.args[2])
           /\ TheCall.ret # Err(FailedToLoad)

\* C7: on a preloaded facade every load() resolves to true on its first poll:
\* no await is ever left suspended, no await returns false, the load routine
\* is never invoked and no completion callback is awaited or run.
C7_PreloadedLoadImmediate ==
    kind = "preloaded" =>
        /\ \A t \in Tasks : /\ step[t] \notin {"Wait", "Run"}
                            /\ result[t] \in {None, Some(TRUE)}
                            /\ step[t] = "Done" => result[t] = Some(TRUE)
        /\ resolvedVals \subseteq {TRUE}
        /\ loadCalls = 0
        /\ inflight = 0
        /\ callbackFlag = None
        /\ head = NoTask

\* Two tasks have each resolved a load() on a preloaded facade while a third
\* await has been created and not yet polled.
C7_Witness ==
    /\ kind = "preloaded"
    /\ \E t, u, v \in Tasks :
          /\ t # u /\ t # v /\ u # v
          /\ result[t] = Some(TRUE) /\ result[u] = Some(TRUE)
          /\ step[v] = "Start"

\* C8: awaits on the same handle that were polled before the callback fired
\* all resolve to the flag the callback was given, and no two awaits on the
\* handle ever return different booleans.
C8_SameResultForAll ==
    /\ Cardinality(resolvedVals) <= 1
    /\ \A t \in Tasks :
          (kind = "deferred" /\ early[t] /\ result[t] # None)
              => result[t] = callbackFlag

\* Every task awaited before the callback fired, the callback fired with
\* false, and every one of the awaits has resolved.
C8_Witness ==
    /\ kind = "deferred"
    /\ callbackFlag = Some(FALSE)
    /\ \A t \in Tasks : early[t] /\ step[t] = "Done" /\ result[t] = Some(FALSE)

\* C9: under a loader that calls back and an executor that re-polls every
\* woken task, every task awaiting load()/ensure_loaded eventually leaves
\* the await: it resolves, unless the task is dropped first.
C9_EveryWaiterResolves ==
    \A t \in Tasks : (step[t] \in Active) ~> (step[t] \notin Active)

\* The driving task has resolved and a task queued behind it, whose waker was
\* never in the SplitLoader's slot, has been woken by the cell.
C9_Witness ==
    /\ kind = "deferred"
    /\ cell # None
    /\ \E h, t \in Tasks :
          /\ h # t
          /\ step[h] = "Done" /\ early[h]
          /\ step[t] = "Wait" /\ early[t] /\ woken[t]

\* What a step may do once the callback has reported failure.
FailedIsTerminal ==
    callbackFlag = Some(FALSE) =>
        /\ state = Completed(FALSE)
        /\ state' = Completed(FALSE)
        /\ callbackFlag' = Some(FALSE)
        /\ loadCalls' = loadCalls
        /\ cell' \in {None, Some(FALSE)}
        /\ \A t \in Tasks :
              (step[t] # "Done" /\ step'[t] = "Done") => result'[t] = Some(FALSE)
        /\ lastCall' # lastCall =>
              /\ lastCall'[2].ret = Err(FailedToLoad)
              /\ lastCall'[2].invokedWith = None

\* C10: once the callback has reported success = false, the state stays
\* Completed(false), every await that resolves afterwards resolves to false,
\* the load routine is not invoked again and call returns Err(FailedToLoad).
C10_FailureTerminal == [][FailedIsTerminal]_vars

\* After a reported failure one await has resolved to false, a later one is
\* still to be polled, and a call has been refused.
C10_Witness ==
    /\ callbackFlag = Some(FALSE)
    /\ CallMade /\ TheCall.callbackFlag = Some(FALSE) /\ TheCall.cell = Some(FALSE)
    /\ \E t, u \in Tasks : /\ result[t] = Some(FALSE)
                           /\ step[u] = "Start" /\ ~early[u]

\* C11: once a pending await has been dropped while the state was Pending
\* (the task whose poll issued the load included, all waiters at once
\* included), the load routine has still been invoked exactly once, the
\* callback is still owed until it runs and then leaves Completed(success),
\* and every await that resolves, whether it was waiting already or started
\* afterwards, resolves to that success value.
C11_CancelKeepsLoad ==
    cancelled =>
        /\ loadCalls = 1
        /\ callbackFlag = None => (state = Pending /\ inflight = 1)
        /\ callbackFlag # None => (state = Completed(callbackFlag[2]) /\ inflight = 0)
        /\ cell \in {None, callbackFlag}
        /\ \A t \in Tasks : result[t] # None => result[t] = callbackFlag

\* After a cancellation the callback reported success; an await that was
\* already waiting and one started after the callback have both resolved true.
C11_Witness ==
    /\ cancelled
    /\ callbackFlag = Some(TRUE)
    /\ \E t, u \in Tasks :
          /\ t # u
          /\ early[t] /\ result[t] = Some(TRUE)
          /\ ~early[u] /\ result[u] = Some(TRUE)

\* Every await was dropped while the load was pending: nobody drives the
\* future, the slot still holds the waker of a task that is gone, and the
\* callback is still owed.
C11_WitnessAllDropped ==
    /\ cancelled
    /\ state = Pending
    /\ head = NoTask
    /\ waker # NoTask
    /\ \A t \in Tasks : step[t] = "Idle"
    /\ inflight = 1

\* What a step that makes a call leaves alone.
CallLeavesLoaderAlone ==
    lastCall' # lastCall =>
        UNCHANGED <<state, waker, cell, head, queue, step, result, woken,
                    loadCalls, tokens, inflight, callbackFlag>>

\* C12: call never invokes the load routine and leaves SplitLoader.state, the
\* waker slot, the cell's cached value and every pending await as they were;
\* a call on a Deferred handle leaves it Deferred.
C12_CallHasNoEffect == [][CallLeavesLoaderAlone]_vars

\* A call was made on a Deferred handle and the handle is still Deferred,
\* with the load routine never invoked.
C12_Witness ==
    /\ CallMade
    /\ TheCall.state = Deferred
    /\ state = Deferred
    /\ loadCalls = 0
    /\ waker = NoTask

\* Position of a SplitLoaderState along Deferred -> Pending -> Completed.
Rank(st) == IF st = Deferred THEN 0 ELSE IF st = Pending THEN 1 ELSE 2

\* What any step may do to SplitLoader.state.
StateMovesForward ==
    /\ Rank(state') >= Rank(state)
    /\ Rank(state) = 2 => state' = state
    /\ kind = "preloaded" => (state = Completed(TRUE) /\ state' = Completed(TRUE))

\* C13: no step takes SplitLoader.state from Pending back to Deferred, from
\* Completed to Pending or Deferred, or from Completed(b) to Completed(not b);
\* a preloaded handle is Completed(true) throughout.
C13_StateForwardOnly == [][StateMovesForward]_vars

\* A deferred handle that was seen Pending by a call has since become
\* Completed(false) and has been polled to resolution in that state.
C13_Witness ==
    /\ kind = "deferred"
    /\ CallMade /\ TheCall.state = Pending
    /\ state = Completed(FALSE)
    /\ cell = Some(FALSE)

\* What the first poll of an await does once some await has resolved.
ResolvedAwaitImmediate ==
    \A t \in Tasks :
        (resolvedVals # {} /\ step[t] = "Start" /\ step'[t] # "Start") =>
            \/ step'[t] = "Idle"
            \/ /\ cell # None
               /\ resolvedVals = {cell[2]}
               /\ step'[t] = "Done"
               /\ result'[t] = cell
               /\ resolvedVals' = resolvedVals
               /\ UNCHANGED <<state, waker, cell, head, queue, loadCalls,
                              tokens, inflight, callbackFlag>>

\* C14: once an await of load()/ensure_loaded has resolved with b, an await
\* that has not been polled yet (one issued afterwards in particular) returns
\* b on its first poll: it never suspends, the SplitLoader is not touched and
\* the load routine is not invoked.
C14_LaterAwaitImmediate == [][ResolvedAwaitImmediate]_vars

\* On a deferred handle whose load failed, an await created after another
\* had already resolved has itself resolved to false.
C14_Witness ==
    /\ kind = "deferred"
    /\ \E t \in Tasks : late[t] /\ step[t] = "Done" /\ result[t] = Some(FALSE)
    /\ loadCalls = 1

\* The load routine called back before it returned.
SyncRoutine == routine \in {Some("sync_true"), Some("sync_false")}

\* What the poll that invokes such a routine does, and what happens to the
\* await that made it.
SyncCallbackTolerated ==
    /\ (routine = None /\ routine' \in {Some("sync_true"), Some("sync_false")}) =>
          LET b == (routine' = Some("sync_true"))
          IN  /\ state = Deferred
              /\ state' = Completed(b)
              /\ callbackFlag' = Some(b)
              /\ loadCalls' = 1
              /\ inflight' = 0
              /\ waker' = NoTask
              /\ cell' = None
              /\ \E t \in Tasks :
                    /\ step[t] \in Active
                    /\ step'[t] = "Run"
                    /\ head' = t
                    /\ result'[t] = None
                    /\ woken'[t]
    /\ \A t \in Tasks :
          (/\ SyncRoutine
           /\ step[t] = "Run"
           /\ head = t
           /\ (step'[t] # step[t] \/ woken'[t] # woken[t])) =>
              \/ step'[t] = "Idle"
              \/ step'[t] = "Done" /\ result'[t] = callbackFlag

\* C15: if the load routine invokes the callback with flag b before it
\* returns, the poll that invoked it still returns not-ready, the state is
\* then Completed(b), the waker registered by that poll has been taken and
\* woken, and the next poll of that await resolves it to b.
C15_SyncCallbackTolerated == [][SyncCallbackTolerated]_vars

\* The routine called back with false inside the first poll, and the await
\* that made that poll has since resolved to false.
C15_Witness ==
    /\ routine = Some("sync_false")
    /\ state = Completed(FALSE)
    /\ \E t \in Tasks : early[t] /\ step[t] = "Done" /\ result[t] = Some(FALSE)
    /\ ~cancelled

\* Task t's await is polled in this step.
IsPolled(t) ==
    /\ step[t] \in Active
    /\ step'[t] \in {"Run", "Wait", "Done"}
    /\ (step'[t] # step[t] \/ (woken[t] /\ ~woken'[t]))

\* What steps may do to the waker slot while the load is pending.
PendingPollReplacesWaker ==
    /\ \A t \in Tasks :
          (state = Pending /\ MayDrive(t) /\ IsPolled(t)) =>
              /\ waker' = t
              /\ state' = Pending
              /\ step'[t] = "Run"
              /\ result'[t] = None
              /\ UNCHANGED <<cell, loadCalls, tokens, inflight, callbackFlag,
                             resolvedVals>>
    /\ (state = Pending /\ state' = Pending /\ waker' # waker) =>
          (waker' \in Tasks /\ MayDrive(waker') /\ IsPolled(waker'))
    /\ (state = Pending /\ state' # Pending) =>
          /\ waker' = NoTask
          /\ \A u \in Tasks :
                woken'[u] = (woken[u] \/ (u = waker /\ step[u] \in Active))

\* C16: a poll of the SplitLoaderFuture that finds the state Pending stores
\* the polling task's waker in place of the one held, returns not-ready and
\* changes nothing else; the slot changes in no other way while the state is
\* Pending, so the waker the callback takes and wakes is the one stored by
\* the most recent such poll.
C16_PendingPollReplacesWaker == [][PendingPollReplacesWaker]_vars

\* A second task took over a pending load and replaced the stored waker;
\* the callback has fired and woken that task, which has not been polled yet.
C16_Witness ==
    /\ replaced
    /\ state = Completed(TRUE)
    /\ cell = None
    /\ waker = NoTask
    /\ \E t \in Tasks : head = t /\ step[t] = "Run" /\ woken[t]
    /\ routine = Some("later")

\* What the completion callback does in the step in which it runs, and what
\* holds of the slot from then on.
CallbackTakesWaker ==
    /\ (callbackFlag = None /\ callbackFlag' # None) =>
          /\ state' = Completed(callbackFlag'[2])
          /\ waker' = NoTask
          /\ inflight' = 0
          /\ routine' = Some("later") =>
                \A u \in Tasks :
                    woken'[u] = (woken[u] \/ (u = waker /\ step[u] \in Active))
          /\ routine' # Some("later") =>
                \E t \in Tasks :
                    /\ head' = t /\ woken'[t]
                    /\ \A u \in Tasks \ {t} : woken'[u] = woken[u]
    /\ callbackFlag # None =>
          /\ callbackFlag' = callbackFlag
          /\ inflight = 0 /\ inflight' = 0
    /\ Rank(state) = 2 => waker = NoTask
    /\ Rank(state') = 2 => waker' = NoTask

\* C17: the completion callback sets the state to Completed(success), takes
\* the stored waker out of the slot and wakes that waker and no other; it runs
\* once, so no waker is woken twice by the loader, and whenever the state is
\* Completed the slot is empty.
C17_CallbackTakesWaker == [][CallbackTakesWaker]_vars

\* The callback has reported failure to a load whose waker was never
\* replaced: the slot is empty and the driving task is woken, not yet polled.
C17_Witness ==
    /\ routine = Some("later")
    /\ ~replaced
    /\ callbackFlag = Some(FALSE)
    /\ state = Completed(FALSE)
    /\ waker = NoTask
    /\ cell = None
    /\ \E t \in Tasks : head = t /\ woken[t]

\* C18: on a deferred handle no await resolves before the completion callback
\* has been invoked, and an await that resolves returns the flag the callback
\* was given; as long as the callback has not been invoked no await has
\* resolved, the cell is empty and every call has returned Err(FailedToLoad).
C18_ResolveOnlyAfterCallback ==
    kind = "deferred" =>
        /\ callbackFlag = None =>
              /\ resolvedVals = {}
              /\ cell = None
              /\ \A t \in Tasks : result[t] = None /\ step[t] # "Done"
              /\ CallMade => (TheCall.ret = Err(FailedToLoad)
                              /\ TheCall.invokedWith = None)
        /\ callbackFlag # None =>
              /\ resolvedVals \subseteq {callbackFlag[2]}
              /\ cell \in {None, callbackFlag}
              /\ \A t \in Tasks : result[t] \in {None, callbackFlag}

\* The load is in flight and the callback has not come: every task is
\* suspended in its await and a call has been refused.
C18_Witness ==
    /\ kind = "deferred"
    /\ callbackFlag = None
    /\ state = Pending
    /\ \A t \in Tasks : step[t] \in {"Run", "Wait"} /\ ~woken[t]
    /\ CallMade /\ TheCall.state = Pending /\ TheCall.ret = Err(FailedToLoad)

\* The raw tokens outstanding match the state: one while Pending, none while
\* Deferred or Completed.
TokensBalanced == tokens = (IF state = Pending THEN 1 ELSE 0)

\* What holds of the handed-out reference before and after every step.
OwnershipHandoff ==
    /\ TokensBalanced
    /\ TokensBalanced'
    /\ lifetime' # "use_after_free"
    /\ (callbackFlag = None /\ callbackFlag' # None) =>
          IF routine' = Some("later")
          THEN tokens = 1 /\ StrongCount >= 1 /\ tokens' = 0
          ELSE tokens = 0 /\ lifetime = "live" /\ tokens' = 0

\* C19: the strong references to the SplitLoader handed to the external
\* loader as raw tokens and not yet reclaimed number 1 while the state is
\* Pending and 0 while it is Deferred or Completed; the callback therefore
\* always runs on a live SplitLoader, also after every await and the handle
\* with its SplitLoaderFuture are gone.
C19_OwnershipBalanced == [][OwnershipHandoff]_vars

\* Every await was dropped and the handle destroyed while the load was in
\* flight; the callback then ran on the SplitLoader that only the token kept
\* alive, and reclaimed it.
C19_Witness ==
    /\ lifetime = "freed_callback"
    /\ cancelled
    /\ callbackFlag # None
    /\ Rank(state) = 2
    /\ tokens = 0

\* The cached value against the state, before and after every step.
CellAgreesWithState ==
    /\ cell # None => (state = Completed(cell[2]) /\ cell' = cell)
    /\ cell' # None => state' = Completed(cell'[2])

\* C20: whenever try_get returns Some(b) the SplitLoaderState is
\* Completed(b), and the cached value, once set, never changes.
C20_CellAgreesWithState == [][CellAgreesWithState]_vars

\* A deferred load failed: a call saw the state Completed(false) with the
\* cell still empty, and the cell has since cached false.
C20_Witness ==
    /\ kind = "deferred"
    /\ CallMade /\ TheCall.state = Completed(FALSE) /\ TheCall.cell = None
    /\ try_get = Some(FALSE)
    /\ state = Completed(FALSE)

====
